---- MODULE Spec2Model ----
(***************************************************************************)
(* Caching workshop (Flask): the Redis read-through helpers, the           *)
(* in-process _cache readers and update_product of                         *)
(* caching-workshop/app/models/products.py, and the redis_cache decorator  *)
(* of caching-workshop/app/utils/redis_cache.py.                           *)
(*                                                                         *)
(* Time is counted in whole seconds.  A Redis key carries the number of    *)
(* seconds it still has to live (-1: no expiry, as the TTL command         *)
(* reports it); an in-process entry carries its age, time.time() minus     *)
(* its timestamp.  Tick is one second passing.                             *)
(***************************************************************************)
EXTENDS Integers, Sequences, FiniteSets, TLC

\* ---------------------------------------------------------------- bounds
\* Number of concurrent request threads that read.
NumCallers == 2
\* Stand-in for sys.getrecursionlimit(): frames of get_with_stampede_protection
\* a thread may stack before Python raises RecursionError.
RecursionLimit == 2
\* Largest ttl / lock_timeout argument a caller passes (seconds).
MaxTtl == 1
MaxLockTimeout == 2
\* Number of committed updates of the product row that are followed.
MaxVersion == 1
\* The ttl given to the redis_cache decorator (30 s in the source) and the
\* lifetimes of the in-process entries (30 s and 60 s in the source), scaled down.
ListTtl == 2
MemListTtl == 1
MemProductTtl == 2
\* The lifetime get_multiple_products gives an entry (60 s in the source), scaled
\* down, and the longest product_ids list it is called with.
MultiTtl == 2
MaxIds == 3

\* init_db inserts the products 1 .. 1000
RowCount == 1000
\* A product id that is in the table and one that is not.
ProductIds == {1, RowCount + 1}
Exists(id) == id >= 1 /\ id <= RowCount
\* The ids get_multiple_products is asked for: those, and a second product that
\* is in the table (its row is never updated).
MultiIds == ProductIds \cup {2}

Callers == 1..NumCallers

\* ------------------------------------------------------------ Python values
\* A Python value: its type and a payload (the version of the row it was
\* computed from).
PyValue(t, v) == [t |-> t, v |-> v]
PyNone == PyValue("none", 0)
\* Marks "no value yet" in a local variable; never a value of the program.
Unset == PyValue("unset", 0)
\* Result types of a computation: a dict (what the product queries build) and a
\* tuple (a value JSON does not give back as it was).
Shapes == {"dict", "tuple"}

\* A Redis string value: JSON text, or the lock marker "locked".
RedisStr(j, v) == [j |-> j, v |-> v]
Nil == RedisStr("nil", 0)
Locked == RedisStr("locked", 0)

\* json.dumps: None -> null, int -> number, list and tuple -> array, dict -> object
dumps(x) ==
  CASE x.t = "none" -> RedisStr("null", 0)
    [] x.t = "int" -> RedisStr("number", x.v)
    [] x.t = "list" -> RedisStr("array", x.v)
    [] x.t = "tuple" -> RedisStr("array", x.v)
    [] OTHER -> RedisStr("object", x.v)

\* json.loads: null -> None, number -> int, array -> list, object -> dict
loads(s) ==
  CASE s.j = "null" -> PyNone
    [] s.j = "number" -> PyValue("int", s.v)
    [] s.j = "array" -> PyValue("list", s.v)
    [] OTHER -> PyValue("dict", s.v)

\* ------------------------------------------------------------------- keys
\* A key is the sequence of the pieces its f-string joins.
ProductKey(id) == <<"product_", id>>
LockKey(key) == key \o <<":lock">>
\* cache_key = f"{key_prefix}:{str(args)}:{str(kwargs)}"
RedisCacheKey(key_prefix, args, kwargs) == <<key_prefix, ":", args, ":", kwargs>>
\* cache_key = f'products_page_{page}_per_page_{per_page}'
PageKey(page, per_page) == <<"products_page_", page, "_per_page_", per_page>>
\* The key the stampede-protected readers share.
Key == ProductKey(1)
\* The key of get_products_redis(1): @redis_cache('products_list', ttl=30)
ListKey == RedisCacheKey("products_list", "(1,)", "{}")
\* The key of get_products(1, 10)
MemListKey == PageKey(1, 10)
RedisKeys == {ProductKey(id) : id \in MultiIds} \cup {LockKey(Key), ListKey}
MemKeys == {ProductKey(id) : id \in ProductIds} \cup {MemListKey}

\* whether key k starts with the pieces of prefix
StartsWith(k, prefix) ==
  Len(k) >= Len(prefix) /\ SubSeq(k, 1, Len(prefix)) = prefix
\* the glob "products_list:*" of update_product: a prefix and a trailing star
ListPattern == <<"products_list", ":", "*">>
\* whether key k matches a glob that ends in its only star
Matches(k, pattern) == StartsWith(k, SubSeq(pattern, 1, Len(pattern) - 1))

\* ------------------------------------------------------- keys as text
\* The same keys character by character, as the f-strings build them from
\* arguments of any type.  A text is a sequence of one-character strings.
PyInt(n) == PyValue("int", n)
PyStr(s) == PyValue("str", s)

\* the decimal digits of a natural number
RECURSIVE Digits(_)
Digits(n) ==
  LET d == <<"0", "1", "2", "3", "4", "5", "6", "7", "8", "9">>[(n % 10) + 1] IN
  IF n < 10 THEN <<d>> ELSE Digits(n \div 10) \o <<d>>

\* the texts s1, ..., sn of a sequence joined with sep between them
RECURSIVE Join(_, _)
Join(texts, sep) ==
  IF texts = <<>> THEN <<>>
  ELSE IF Len(texts) = 1 THEN texts[1]
  ELSE texts[1] \o sep \o Join(Tail(texts), sep)

\* a text with a backslash before every backslash and every quote q
RECURSIVE Escaped(_, _)
Escaped(s, q) ==
  IF s = <<>> THEN <<>>
  ELSE (IF Head(s) \in {"\\", q} THEN <<"\\", Head(s)>> ELSE <<Head(s)>>)
         \o Escaped(Tail(s), q)

\* str(x), which is what an f-string puts for {x}: a str as it is
str(x) == IF x.t = "int" THEN Digits(x.v) ELSE x.v

\* repr(x): a str in quotes, double quotes if it holds a single and no double one
repr(x) ==
  IF x.t = "int" THEN Digits(x.v)
  ELSE LET chars == {x.v[i] : i \in DOMAIN x.v}
           q == IF "'" \in chars /\ "\"" \notin chars THEN "\"" ELSE "'"
       IN <<q>> \o Escaped(x.v, q) \o <<q>>

\* str(args) of the tuple of positional arguments: (), (a,), (a, b)
TupleStr(xs) ==
  <<"(">> \o Join([i \in DOMAIN xs |-> repr(xs[i])], <<",", " ">>)
          \o (IF Len(xs) = 1 THEN <<",", ")">> ELSE <<")">>)

\* str(kwargs) of the dict of keyword arguments, a sequence of <<name, value>>
\* in the order of the call: {}, {'a': 1}, {'a': 1, 'b': 2}
DictStr(kv) ==
  <<"{">> \o Join([i \in DOMAIN kv |-> repr(PyStr(kv[i][1])) \o <<":", " ">> \o repr(kv[i][2])],
                  <<",", " ">>)
          \o <<"}">>

\* cache_key = f"{key_prefix}:{str(args)}:{str(kwargs)}"
WrapperCacheKey(key_prefix, xs, kv) ==
  key_prefix \o <<":">> \o TupleStr(xs) \o <<":">> \o DictStr(kv)
\* cache_key = f'products_page_{page}_per_page_{per_page}'
PageCacheKey(page, per_page) ==
  <<"p", "r", "o", "d", "u", "c", "t", "s", "_", "p", "a", "g", "e", "_">> \o str(page)
    \o <<"_", "p", "e", "r", "_", "p", "a", "g", "e", "_">> \o str(per_page)
\* cache_key = f'product_{product_id}'
ProductCacheKey(id) ==
  <<"p", "r", "o", "d", "u", "c", "t", "_">> \o str(id)

\* A logical call: the function (for the decorator, with its key_prefix), the
\* positional and the keyword arguments.
KeyCall(f, prefix, xs, kv) == [f |-> f, prefix |-> prefix, args |-> xs, kwargs |-> kv]
\* the key a call derives
KeyOf(call) ==
  CASE call.f = "get_product_by_id" -> ProductCacheKey(call.args[1])
    [] call.f = "get_products" -> PageCacheKey(call.args[1], call.args[2])
    [] OTHER -> WrapperCacheKey(call.prefix, call.args, call.kwargs)

\* Argument values: integers, and the strings "1" and "1_per_page_1".
KeyValues ==
  {PyInt(1), PyInt(11), PyStr(<<"1">>),
   PyStr(<<"1", "_", "p", "e", "r", "_", "p", "a", "g", "e", "_", "1">>)}
\* key_prefix values of the decorator: 'products_list' and 'products_list:(1,)'
KeyPrefixes ==
  LET p == <<"p", "r", "o", "d", "u", "c", "t", "s", "_", "l", "i", "s", "t">> IN
  {p, p \o <<":", "(", "1", ",", ")">>}
KeyCalls ==
  {KeyCall("get_product_by_id", <<>>, <<x>>, <<>>) : x \in KeyValues}
  \cup {KeyCall("get_products", <<>>, <<x, y>>, <<>>) : x, y \in KeyValues}
  \cup {KeyCall("redis_cache", p, xs, kv) :
          p \in KeyPrefixes,
          xs \in {<<>>, <<PyInt(1)>>, <<PyStr(<<"1">>)>>},
          kv \in {<<>>, << <<<<"p", "a", "g", "e">>, PyInt(1)>> >>}}

\* ------------------------------------------------------------ the stores
Entry(val, exp) == [val |-> val, exp |-> exp]
Absent == Entry(Nil, -2)
NoExpiry == -1
\* an entry of the in-process _cache: {'data': ..., 'timestamp': ...}, the
\* timestamp kept as the entry's age
MemEntry(data, age) == [data |-> data, age |-> age]
MemAbsent == MemEntry(Unset, 0)
\* the places a cached value lives: a Redis key or a key of _cache
Slots == ({"redis"} \X {Key, ListKey}) \cup ({"mem"} \X MemKeys)

VARIABLES
  cache,        \* the Redis store: key -> Entry or Absent
  memcache,     \* the in-process _cache: key -> MemEntry or MemAbsent
  dbver,        \* version of the row of product 1 in the database
  ttl,          \* the ttl argument of get_with_stampede_protection
  lock_timeout, \* its lock_timeout argument
  shape,        \* the type of value the cached computation returns
  op,           \* per caller: the function it called
  pc,           \* per caller: the statement it is at
  use_cache,    \* per caller: the use_cache argument
  product_id,   \* per caller: the product_id argument (0: none)
  depth,        \* per caller: frames of get_with_stampede_protection stacked
  fresh_data,   \* per caller: the value its computation returned
  result,       \* per caller: the value its call returned
  err,          \* per caller: the exception its call ended with
  computed,     \* per caller: whether its call ran the computation
  u_pc,         \* update_product: the statement it is at
  u_product_id, \* update_product: its product_id argument
  u_fields,     \* update_product: whether name, price or description is given
  u_keys,       \* update_product: the local keys
  u_result,     \* update_product: what the last call returned
  lockLost,     \* whether a lock key expired while its holder was still at work
  ackVer,       \* the row version of the last update_product that returned True
  sinceAck,     \* seconds since the first return of True at that row version
  last,         \* per slot: the value the last read of it returned, while the
                \* entry has been neither invalidated nor expired since
  owner,        \* the caller whose setnx created the lock key now live (0: none)
  u_committed,  \* update_product: whether its call has run conn.commit()
  u_err,        \* update_product: the exception its last call ended with
  u_fault,      \* update_product: which Redis call of its call the store fails
                \* (1: delete of the product key, 2: keys, 3: delete of the list
                \* keys; 0: none)
  m_pc,         \* get_multiple_products: the statement it is at
  m_product_ids,    \* get_multiple_products: its product_ids argument
  m_cached_results, \* get_multiple_products: the local cached_results
  m_results,    \* get_multiple_products: the local results, and what it returns
  m_i,          \* get_multiple_products: the position of the loop in product_ids
  m_age,        \* seconds since the call in progress ran pipeline.execute()
  key_args,     \* key derivation: two calls, each a logical name with its arguments
  cache_key     \* key derivation: the cache_key each of the two calls builds

vars == <<cache, memcache, dbver, ttl, lock_timeout, shape, op, pc, use_cache,
          product_id, depth, fresh_data, result, err, computed, u_pc,
          u_product_id, u_fields, u_keys, u_result, lockLost, ackVer, sinceAck,
          last, owner, u_committed, u_err, u_fault, m_pc, m_product_ids, m_cached_results,
          m_results, m_i, m_age, key_args, cache_key>>

\* the state of get_multiple_products' call
multi == <<m_pc, m_product_ids, m_cached_results, m_results, m_i>>
\* the inputs and outputs of the key derivations
codec == <<key_args, cache_key>>

\* what no step of a reader changes
env == <<dbver, ttl, lock_timeout, shape, u_pc, u_product_id, u_fields, u_keys,
         u_result, lockLost, ackVer, sinceAck, u_committed, u_err, u_fault, multi,
         m_age, codec>>
\* the arguments of a reader's call
args == <<op, use_cache, product_id>>
\* the state of update_product's call
writer == <<u_pc, u_product_id, u_fields, u_keys, u_result, u_committed, u_err,
            u_fault>>
\* the state of the readers
readers == <<op, pc, use_cache, product_id, depth, fresh_data, result, err,
             computed>>

\* cache.get(key): the value, or nil
get(key) == cache[key].val
\* cache.delete(*keys)
Deleted(keys) == [k \in DOMAIN cache |-> IF k \in keys THEN Absent ELSE cache[k]]
\* the statements at which a caller holds the lock it created
HolderPcs == {"expire", "fallback", "setex", "release"}
\* the slots among ks forgotten, the others as they were
Forget(ks) == [s \in Slots |-> IF s \in ks THEN Unset ELSE last[s]]

\* ----------------------------------------------------- get_with_stampede_protection
\* A request thread calls get_with_stampede_protection(key, ttl, fallback_function, lock_timeout).
Call(c) ==
  /\ pc[c] = "idle"
  /\ op' = [op EXCEPT ![c] = "get_with_stampede_protection"]
  /\ pc' = [pc EXCEPT ![c] = "get"]
  /\ depth' = [depth EXCEPT ![c] = 1]
  /\ UNCHANGED <<env, owner, cache, memcache, last, use_cache, product_id, fresh_data,
                 result, err, computed>>

\* cached_data = cache.get(key); if cached_data is not None: return json.loads(cached_data)
Get(c) ==
  /\ pc[c] = "get"
  /\ IF get(Key) # Nil
       THEN /\ result' = [result EXCEPT ![c] = loads(get(Key))]
            /\ pc' = [pc EXCEPT ![c] = "done"]
            /\ last' = [last EXCEPT ![<<"redis", Key>>] = loads(get(Key))]
       ELSE /\ pc' = [pc EXCEPT ![c] = "setnx"]
            /\ UNCHANGED <<result, last>>
  /\ UNCHANGED <<env, owner, args, cache, memcache, depth, fresh_data, err, computed>>

\* Setnx as a plain set: the lock is taken whether or not it is held.
SetnxNotAtomic(c) ==
  /\ pc[c] = "setnx"
  /\ cache' = [cache EXCEPT ![LockKey(Key)] = Entry(Locked, NoExpiry)]
  /\ owner' = c
  /\ pc' = [pc EXCEPT ![c] = "expire"]
  /\ UNCHANGED <<env, args, memcache, last, depth, fresh_data, result, err, computed>>

\* if cache.setnx(lock_key, "locked"): ... else: ...
Setnx(c) ==
  /\ pc[c] = "setnx"
  /\ IF get(LockKey(Key)) = Nil
       THEN /\ cache' = [cache EXCEPT ![LockKey(Key)] = Entry(Locked, NoExpiry)]
            /\ owner' = c
            /\ pc' = [pc EXCEPT ![c] = "expire"]
       ELSE /\ pc' = [pc EXCEPT ![c] = "sleep"]
            /\ UNCHANGED <<cache, owner>>
  /\ UNCHANGED <<env, args, memcache, last, depth, fresh_data, result, err, computed>>

\* cache.expire(lock_key, lock_timeout): sets the time to live of an existing key;
\* then the try block is entered and fallback_function is called.
Expire(c) ==
  /\ pc[c] = "expire"
  /\ cache' = IF get(LockKey(Key)) # Nil
                THEN [cache EXCEPT ![LockKey(Key)].exp = lock_timeout]
                ELSE cache
  /\ pc' = [pc EXCEPT ![c] = "fallback"]
  /\ computed' = [computed EXCEPT ![c] = TRUE]
  /\ UNCHANGED <<env, owner, args, memcache, last, depth, fresh_data, result, err>>

\* fresh_data = fallback_function(): the computation reads the row and returns
FallbackReturn(c) ==
  /\ pc[c] = "fallback"
  /\ fresh_data' = [fresh_data EXCEPT ![c] = PyValue(shape, dbver)]
  /\ pc' = [pc EXCEPT ![c] = "setex"]
  /\ UNCHANGED <<env, owner, args, cache, memcache, last, depth, result, err, computed>>

\* FallbackRaise with the failure cached as an empty result.
FallbackRaiseCachesNone(c) ==
  /\ pc[c] = "fallback"
  /\ err' = [err EXCEPT ![c] = "ProducerFailure"]
  /\ cache' = [cache EXCEPT ![Key] = Entry(dumps(PyNone), ttl)]
  /\ pc' = [pc EXCEPT ![c] = "release"]
  /\ UNCHANGED <<env, owner, args, memcache, last, depth, fresh_data, result, computed>>

\* fallback_function() raises: control goes to the finally block
FallbackRaise(c) ==
  /\ pc[c] = "fallback"
  /\ err' = [err EXCEPT ![c] = "ProducerFailure"]
  /\ pc' = [pc EXCEPT ![c] = "release"]
  /\ UNCHANGED <<env, owner, args, cache, memcache, last, depth, fresh_data, result,
                 computed>>

\* cache.setex(key, ttl, json.dumps(fresh_data))
Setex(c) ==
  /\ pc[c] = "setex"
  /\ cache' = [cache EXCEPT ![Key] = Entry(dumps(fresh_data[c]), ttl)]
  /\ last' = [last EXCEPT ![<<"redis", Key>>] = fresh_data[c]]
  /\ pc' = [pc EXCEPT ![c] = "release"]
  /\ UNCHANGED <<env, owner, args, memcache, depth, fresh_data, result, err, computed>>

\* Release without the finally: the lock is deleted on the return path only.
ReleaseOnSuccessOnly(c) ==
  /\ pc[c] = "release"
  /\ IF err[c] = "none"
       THEN /\ cache' = [cache EXCEPT ![LockKey(Key)] = Absent]
            /\ owner' = 0
            /\ result' = [result EXCEPT ![c] = fresh_data[c]]
            /\ pc' = [pc EXCEPT ![c] = "done"]
       ELSE /\ pc' = [pc EXCEPT ![c] = "raised"]
            /\ UNCHANGED <<cache, owner, result>>
  /\ UNCHANGED <<env, args, memcache, last, depth, fresh_data, err, computed>>

\* finally: cache.delete(lock_key); then return fresh_data, or the exception goes on
Release(c) ==
  /\ pc[c] = "release"
  /\ cache' = [cache EXCEPT ![LockKey(Key)] = Absent]
  /\ owner' = 0
  /\ IF err[c] = "none"
       THEN /\ result' = [result EXCEPT ![c] = fresh_data[c]]
            /\ pc' = [pc EXCEPT ![c] = "done"]
       ELSE /\ pc' = [pc EXCEPT ![c] = "raised"]
            /\ UNCHANGED result
  /\ UNCHANGED <<env, args, memcache, last, depth, fresh_data, err, computed>>

\* time.sleep(0.1); return get_with_stampede_protection(...): one more frame, with
\* no bound of its own; Python ends it with RecursionError at the recursion limit.
Retry(c) ==
  /\ pc[c] = "sleep"
  /\ IF depth[c] < RecursionLimit
       THEN /\ depth' = [depth EXCEPT ![c] = depth[c] + 1]
            /\ pc' = [pc EXCEPT ![c] = "get"]
            /\ UNCHANGED err
       ELSE /\ err' = [err EXCEPT ![c] = "RecursionError"]
            /\ pc' = [pc EXCEPT ![c] = "raised"]
            /\ UNCHANGED depth
  /\ UNCHANGED <<env, owner, args, cache, memcache, last, fresh_data, result, computed>>

\* The process of a lock holder dies (killed, power loss): no finally block runs.
Crash(c) ==
  /\ pc[c] \in HolderPcs
  /\ pc' = [pc EXCEPT ![c] = "crashed"]
  /\ UNCHANGED <<env, owner, args, cache, memcache, last, depth, fresh_data, result, err,
                 computed>>

\* ------------------------------------------------------------ redis_cache
\* A request thread calls the decorated get_products_redis(1).
WrapperCall(c) ==
  /\ pc[c] = "idle"
  /\ op' = [op EXCEPT ![c] = "redis_cache"]
  /\ pc' = [pc EXCEPT ![c] = "w_get"]
  /\ UNCHANGED <<env, owner, cache, memcache, last, use_cache, product_id, depth,
                 fresh_data, result, err, computed>>

\* cached_data = redis_client.get(cache_key); if cached_data is not None: return json.loads(cached_data)
WrapperGet(c) ==
  /\ pc[c] = "w_get"
  /\ IF get(ListKey) # Nil
       THEN /\ result' = [result EXCEPT ![c] = loads(get(ListKey))]
            /\ pc' = [pc EXCEPT ![c] = "done"]
            /\ last' = [last EXCEPT ![<<"redis", ListKey>>] = loads(get(ListKey))]
       ELSE /\ pc' = [pc EXCEPT ![c] = "w_call"]
            /\ UNCHANGED <<result, last>>
  /\ UNCHANGED <<env, owner, args, cache, memcache, depth, fresh_data, err, computed>>

\* result = f(*args, **kwargs): the wrapped function queries the database and returns
WrapperCompute(c) ==
  /\ pc[c] = "w_call"
  /\ fresh_data' = [fresh_data EXCEPT ![c] = PyValue(shape, dbver)]
  /\ computed' = [computed EXCEPT ![c] = TRUE]
  /\ pc' = [pc EXCEPT ![c] = "w_setex"]
  /\ UNCHANGED <<env, owner, args, cache, memcache, last, depth, result, err>>

\* f(*args, **kwargs) raises: the exception leaves the wrapper at once
WrapperRaise(c) ==
  /\ pc[c] = "w_call"
  /\ err' = [err EXCEPT ![c] = "ProducerFailure"]
  /\ computed' = [computed EXCEPT ![c] = TRUE]
  /\ pc' = [pc EXCEPT ![c] = "raised"]
  /\ UNCHANGED <<env, owner, args, cache, memcache, last, depth, fresh_data, result>>

\* redis_client.setex(cache_key, ttl, json.dumps(result)); return result
WrapperSetex(c) ==
  /\ pc[c] = "w_setex"
  /\ cache' = [cache EXCEPT ![ListKey] = Entry(dumps(fresh_data[c]), ListTtl)]
  /\ last' = [last EXCEPT ![<<"redis", ListKey>>] = fresh_data[c]]
  /\ result' = [result EXCEPT ![c] = fresh_data[c]]
  /\ pc' = [pc EXCEPT ![c] = "done"]
  /\ UNCHANGED <<env, owner, args, memcache, depth, fresh_data, err, computed>>

\* ------------------------------------------------------------ get_products
\* A request thread calls get_products(1, 10, use_cache).
ListCall(c, uc) ==
  /\ pc[c] = "idle"
  /\ op' = [op EXCEPT ![c] = "get_products"]
  /\ use_cache' = [use_cache EXCEPT ![c] = uc]
  /\ pc' = [pc EXCEPT ![c] = "l_check"]
  /\ UNCHANGED <<env, owner, cache, memcache, last, product_id, depth, fresh_data, result,
                 err, computed>>

\* ListCheck with the age compared by <=: an entry is still served at the age
\* of its lifetime.
ListCheckInclusive(c) ==
  /\ pc[c] = "l_check"
  /\ IF /\ use_cache[c]
        /\ memcache[MemListKey] # MemAbsent
        /\ memcache[MemListKey].age <= MemListTtl
       THEN /\ result' = [result EXCEPT ![c] = memcache[MemListKey].data]
            /\ pc' = [pc EXCEPT ![c] = "done"]
            /\ last' = [last EXCEPT ![<<"mem", MemListKey>>] = memcache[MemListKey].data]
       ELSE /\ pc' = [pc EXCEPT ![c] = "l_query"]
            /\ UNCHANGED <<result, last>>
  /\ UNCHANGED <<env, owner, args, cache, memcache, depth, fresh_data, err, computed>>

\* if use_cache and cache_key in _cache: if time.time() - cache_entry['timestamp'] < 30:
\*   return cache_entry['data']
ListCheck(c) ==
  /\ pc[c] = "l_check"
  /\ IF /\ use_cache[c]
        /\ memcache[MemListKey] # MemAbsent
        /\ memcache[MemListKey].age < MemListTtl
       THEN /\ result' = [result EXCEPT ![c] = memcache[MemListKey].data]
            /\ pc' = [pc EXCEPT ![c] = "done"]
            /\ last' = [last EXCEPT ![<<"mem", MemListKey>>] = memcache[MemListKey].data]
       ELSE /\ pc' = [pc EXCEPT ![c] = "l_query"]
            /\ UNCHANGED <<result, last>>
  /\ UNCHANGED <<env, owner, args, cache, memcache, depth, fresh_data, err, computed>>

\* the two queries under get_db_connection(), and result = {...}
ListQuery(c) ==
  /\ pc[c] = "l_query"
  /\ fresh_data' = [fresh_data EXCEPT ![c] = PyValue("dict", dbver)]
  /\ computed' = [computed EXCEPT ![c] = TRUE]
  /\ pc' = [pc EXCEPT ![c] = "l_store"]
  /\ UNCHANGED <<env, owner, args, cache, memcache, last, depth, result, err>>

\* ListStore without the test of use_cache: the result is stored in any case.
ListStoreAlways(c) ==
  /\ pc[c] = "l_store"
  /\ memcache' = [memcache EXCEPT ![MemListKey] = MemEntry(fresh_data[c], 0)]
  /\ last' = [last EXCEPT ![<<"mem", MemListKey>>] = fresh_data[c]]
  /\ result' = [result EXCEPT ![c] = fresh_data[c]]
  /\ pc' = [pc EXCEPT ![c] = "done"]
  /\ UNCHANGED <<env, owner, args, cache, depth, fresh_data, err, computed>>

\* if use_cache: _cache[cache_key] = {'data': result, 'timestamp': time.time()}; return result
ListStore(c) ==
  /\ pc[c] = "l_store"
  /\ IF use_cache[c]
       THEN /\ memcache' = [memcache EXCEPT ![MemListKey] = MemEntry(fresh_data[c], 0)]
            /\ last' = [last EXCEPT ![<<"mem", MemListKey>>] = fresh_data[c]]
       ELSE UNCHANGED <<memcache, last>>
  /\ result' = [result EXCEPT ![c] = fresh_data[c]]
  /\ pc' = [pc EXCEPT ![c] = "done"]
  /\ UNCHANGED <<env, owner, args, cache, depth, fresh_data, err, computed>>

\* ------------------------------------------------------- get_product_by_id
\* A request thread calls get_product_by_id(id, use_cache).
ProductCall(c, id, uc) ==
  /\ pc[c] = "idle"
  /\ op' = [op EXCEPT ![c] = "get_product_by_id"]
  /\ use_cache' = [use_cache EXCEPT ![c] = uc]
  /\ product_id' = [product_id EXCEPT ![c] = id]
  /\ pc' = [pc EXCEPT ![c] = "p_check"]
  /\ UNCHANGED <<env, owner, cache, memcache, last, depth, fresh_data, result, err, computed>>

\* if use_cache and cache_key in _cache: if time.time() - cache_entry['timestamp'] < 60:
\*   return cache_entry['data']
ProductCheck(c) ==
  LET k == ProductKey(product_id[c]) IN
  /\ pc[c] = "p_check"
  /\ IF /\ use_cache[c]
        /\ memcache[k] # MemAbsent
        /\ memcache[k].age < MemProductTtl
       THEN /\ result' = [result EXCEPT ![c] = memcache[k].data]
            /\ pc' = [pc EXCEPT ![c] = "done"]
            /\ last' = [last EXCEPT ![<<"mem", k>>] = memcache[k].data]
       ELSE /\ pc' = [pc EXCEPT ![c] = "p_query"]
            /\ UNCHANGED <<result, last>>
  /\ UNCHANGED <<env, owner, args, cache, memcache, depth, fresh_data, err, computed>>

\* product = conn.execute(query, (product_id,)).fetchone(); if product is None:
\*   return None; else result = {'product': dict(product), ...}
ProductQuery(c) ==
  LET k == ProductKey(product_id[c]) IN
  /\ pc[c] = "p_query"
  /\ computed' = [computed EXCEPT ![c] = TRUE]
  /\ IF Exists(product_id[c])
       THEN /\ fresh_data' = [fresh_data EXCEPT ![c] = PyValue("dict", dbver)]
            /\ pc' = [pc EXCEPT ![c] = "p_store"]
            /\ UNCHANGED <<result, last>>
       ELSE /\ result' = [result EXCEPT ![c] = PyNone]
            /\ pc' = [pc EXCEPT ![c] = "done"]
            /\ last' = IF use_cache[c] THEN [last EXCEPT ![<<"mem", k>>] = PyNone]
                       ELSE last
            /\ UNCHANGED fresh_data
  /\ UNCHANGED <<env, owner, args, cache, memcache, depth, err>>

\* ProductStore under a key that no reader looks up.
ProductStoreWrongKey(c) ==
  /\ pc[c] = "p_store"
  /\ IF use_cache[c]
       THEN /\ memcache' = [memcache EXCEPT ![MemListKey] = MemEntry(fresh_data[c], 0)]
            /\ last' = [last EXCEPT ![<<"mem", ProductKey(product_id[c])>>] = fresh_data[c]]
       ELSE UNCHANGED <<memcache, last>>
  /\ result' = [result EXCEPT ![c] = fresh_data[c]]
  /\ pc' = [pc EXCEPT ![c] = "done"]
  /\ UNCHANGED <<env, owner, args, cache, depth, fresh_data, err, computed>>

\* if use_cache: _cache[cache_key] = {'data': result, 'timestamp': time.time()}; return result
ProductStore(c) ==
  LET k == ProductKey(product_id[c]) IN
  /\ pc[c] = "p_store"
  /\ IF use_cache[c]
       THEN /\ memcache' = [memcache EXCEPT ![k] = MemEntry(fresh_data[c], 0)]
            /\ last' = [last EXCEPT ![<<"mem", k>>] = fresh_data[c]]
       ELSE UNCHANGED <<memcache, last>>
  /\ result' = [result EXCEPT ![c] = fresh_data[c]]
  /\ pc' = [pc EXCEPT ![c] = "done"]
  /\ UNCHANGED <<env, owner, args, cache, depth, fresh_data, err, computed>>

\* The thread's request is over; it serves another one.
Reset(c) ==
  /\ pc[c] \in {"done", "raised"}
  /\ op' = [op EXCEPT ![c] = "none"]
  /\ pc' = [pc EXCEPT ![c] = "idle"]
  /\ use_cache' = [use_cache EXCEPT ![c] = FALSE]
  /\ product_id' = [product_id EXCEPT ![c] = 0]
  /\ depth' = [depth EXCEPT ![c] = 0]
  /\ fresh_data' = [fresh_data EXCEPT ![c] = Unset]
  /\ result' = [result EXCEPT ![c] = Unset]
  /\ err' = [err EXCEPT ![c] = "none"]
  /\ computed' = [computed EXCEPT ![c] = FALSE]
  /\ UNCHANGED <<env, owner, cache, memcache, last>>

\* ---------------------------------------------------- get_multiple_products
\* the content of the row of product id, as a number: the version of the row of
\* product 1, and for another product a number of its own
Row(id) == IF id = 1 THEN dbver ELSE RowCount + id
\* get_product_from_db(product_id): the product, or None if there is no such row
get_product_from_db(id) == IF Exists(id) THEN PyValue("dict", Row(id)) ELSE PyNone
\* bool(x) of a product or None
Truthy(x) == x # PyNone
\* the product_ids lists of the calls
IdLists == UNION {[1..n -> MultiIds] : n \in 0..MaxIds}

\* A request thread calls get_multiple_products(product_ids).
MCall(ids) ==
  /\ m_pc = "idle"
  /\ m_pc' = "m_execute"
  /\ m_product_ids' = ids
  /\ UNCHANGED <<readers, writer, cache, memcache, last, dbver, ttl, lock_timeout,
                 shape, lockLost, ackVer, sinceAck, owner, m_age, codec, m_cached_results,
                 m_results, m_i>>

\* pipeline.get(...) for every id; cached_results = pipeline.execute(); results = []
MExecute ==
  /\ m_pc = "m_execute"
  /\ m_cached_results' = [i \in DOMAIN m_product_ids |-> get(ProductKey(m_product_ids[i]))]
  /\ m_results' = <<>>
  /\ m_i' = 1
  /\ m_pc' = "m_loop"
  /\ m_age' = 0
  /\ UNCHANGED <<readers, writer, cache, memcache, last, dbver, ttl, lock_timeout,
                 shape, lockLost, ackVer, sinceAck, owner, codec, m_product_ids>>

\* MIter with results.append(product) outside the test of product: a None is
\* appended for an id that is in neither place.
MIterAppendsNone ==
  LET id == m_product_ids[m_i]
      cached_data == m_cached_results[m_i]
      product == get_product_from_db(id)
      slot == <<"redis", ProductKey(id)>>
  IN
  /\ m_pc = "m_loop"
  /\ m_i <= Len(m_product_ids)
  /\ IF cached_data # Nil
       THEN /\ m_results' = Append(m_results, loads(cached_data))
            /\ last' = IF slot \in Slots THEN [last EXCEPT ![slot] = loads(cached_data)]
                       ELSE last
            /\ UNCHANGED cache
       ELSE /\ m_results' = Append(m_results, product)
            /\ IF Truthy(product)
                 THEN /\ cache' = [cache EXCEPT ![ProductKey(id)] =
                                     Entry(dumps(product), MultiTtl)]
                      /\ last' = IF slot \in Slots THEN [last EXCEPT ![slot] = product]
                                 ELSE last
                 ELSE UNCHANGED <<cache, last>>
  /\ m_i' = m_i + 1
  /\ UNCHANGED <<readers, writer, memcache, dbver, ttl, lock_timeout, shape, lockLost,
                 ackVer, sinceAck, owner, m_age, codec, m_pc, m_product_ids, m_cached_results>>

\* One turn of the loop over zip(product_ids, cached_results): a hit is decoded
\* and appended; a miss is looked up in the database and, if found, cached for
\* 60 s under product_<id> and appended.
MIter ==
  LET id == m_product_ids[m_i]
      cached_data == m_cached_results[m_i]
      product == get_product_from_db(id)
      slot == <<"redis", ProductKey(id)>>
  IN
  /\ m_pc = "m_loop"
  /\ m_i <= Len(m_product_ids)
  /\ IF cached_data # Nil
       THEN /\ m_results' = Append(m_results, loads(cached_data))
            /\ last' = IF slot \in Slots THEN [last EXCEPT ![slot] = loads(cached_data)]
                       ELSE last
            /\ UNCHANGED cache
       ELSE IF Truthy(product)
         THEN /\ cache' = [cache EXCEPT ![ProductKey(id)] = Entry(dumps(product), MultiTtl)]
              /\ m_results' = Append(m_results, product)
              /\ last' = IF slot \in Slots THEN [last EXCEPT ![slot] = product] ELSE last
         ELSE UNCHANGED <<cache, m_results, last>>
  /\ m_i' = m_i + 1
  /\ UNCHANGED <<readers, writer, memcache, dbver, ttl, lock_timeout, shape, lockLost,
                 ackVer, sinceAck, owner, m_age, codec, m_pc, m_product_ids, m_cached_results>>

\* return results
MReturn ==
  /\ m_pc = "m_loop"
  /\ m_i > Len(m_product_ids)
  /\ m_pc' = "m_done"
  /\ UNCHANGED <<readers, writer, cache, memcache, last, dbver, ttl, lock_timeout,
                 shape, lockLost, ackVer, sinceAck, owner, m_age, codec, m_product_ids,
                 m_cached_results, m_results, m_i>>

\* The thread's request is over; it serves another one.
MReset ==
  /\ m_pc = "m_done"
  /\ m_pc' = "idle"
  /\ m_product_ids' = <<>>
  /\ m_cached_results' = <<>>
  /\ m_results' = <<>>
  /\ m_i' = 0
  /\ m_age' = 0
  /\ UNCHANGED <<readers, writer, cache, memcache, last, dbver, ttl, lock_timeout,
                 shape, lockLost, ackVer, sinceAck, owner, codec>>

\* ---------------------------------------------------------- update_product
\* A request thread calls update_product(id, name, price, description); fields
\* tells whether one of name, price, description is not None, and fault which of
\* the call's Redis calls the store will fail (0: none).
UCallFailing(id, fields, fault) ==
  /\ u_pc = "idle"
  /\ (fields /\ Exists(id)) => dbver < MaxVersion
  /\ u_pc' = "u_commit"
  /\ u_product_id' = id
  /\ u_fields' = fields
  /\ u_result' = "none"
  /\ u_err' = "none"
  /\ u_committed' = FALSE
  /\ u_fault' = fault
  /\ UNCHANGED <<readers, cache, memcache, last, dbver, ttl, lock_timeout, shape,
                 u_keys, lockLost, ackVer, sinceAck, owner, multi, m_age, codec>>

\* The same call with a store that answers every call.
UCall(id, fields) == UCallFailing(id, fields, 0)

\* UCommit without conn.commit(): the UPDATE is executed and lost when the
\* connection is closed.
UCommitForgotten ==
  /\ u_pc = "u_commit"
  /\ IF u_fields
       THEN /\ u_pc' = "u_delete"
            /\ UNCHANGED <<dbver, u_committed, u_result, u_product_id, u_fields, u_fault>>
       ELSE /\ u_result' = "False"
            /\ u_pc' = "idle"
            /\ u_product_id' = 0
            /\ u_fields' = FALSE
            /\ u_fault' = 0
            /\ UNCHANGED <<dbver, u_committed>>
  /\ UNCHANGED <<readers, cache, memcache, last, ttl, lock_timeout, shape, u_keys,
                 lockLost, ackVer, sinceAck, owner, u_err, multi, m_age, codec>>

\* if not updates: return False; conn.execute(query, params); conn.commit()
UCommit ==
  /\ u_pc = "u_commit"
  /\ IF u_fields
       THEN /\ dbver' = IF Exists(u_product_id) THEN dbver + 1 ELSE dbver
            /\ u_committed' = TRUE
            /\ u_pc' = "u_delete"
            /\ UNCHANGED <<u_result, u_product_id, u_fields, u_fault>>
       ELSE /\ u_result' = "False"
            /\ u_pc' = "idle"
            /\ u_product_id' = 0
            /\ u_fields' = FALSE
            /\ u_fault' = 0
            /\ UNCHANGED <<dbver, u_committed>>
  /\ UNCHANGED <<readers, cache, memcache, last, ttl, lock_timeout, shape, u_keys,
                 lockLost, ackVer, sinceAck, owner, u_err, multi, m_age, codec>>

\* redis_client.delete(f"product_{product_id}")
UDelete ==
  /\ u_pc = "u_delete"
  /\ u_fault # 1
  /\ cache' = Deleted({ProductKey(u_product_id)})
  /\ last' = Forget({<<"redis", ProductKey(u_product_id)>>})
  /\ u_pc' = "u_keys"
  /\ UNCHANGED <<readers, memcache, dbver, ttl, lock_timeout, shape, u_product_id,
                 u_fields, u_keys, u_result, lockLost, ackVer, sinceAck, owner,
                 u_committed, u_err, u_fault, multi, m_age, codec>>

\* keys = redis_client.keys("products_list:*")
UKeys ==
  /\ u_pc = "u_keys"
  /\ u_fault # 2
  /\ u_keys' = {k \in DOMAIN cache : get(k) # Nil /\ Matches(k, ListPattern)}
  /\ u_pc' = "u_delete_keys"
  /\ UNCHANGED <<readers, cache, memcache, last, dbver, ttl, lock_timeout, shape,
                 u_product_id, u_fields, u_result, lockLost, ackVer, sinceAck, owner,
                 u_committed, u_err, u_fault, multi, m_age, codec>>

\* UDeleteKeys by flushing the database instead of deleting the keys found.
UDeleteKeysFlushAll ==
  /\ u_pc = "u_delete_keys"
  /\ u_keys # {} => u_fault # 3
  /\ cache' = IF u_keys # {} THEN Deleted(DOMAIN cache) ELSE cache
  /\ last' = IF u_keys # {} THEN Forget(Slots) ELSE last
  /\ u_keys' = {}
  /\ u_product_id' = 0
  /\ u_fields' = FALSE
  /\ u_fault' = 0
  /\ u_result' = "True"
  /\ u_pc' = "idle"
  /\ ackVer' = dbver
  /\ sinceAck' = IF dbver > ackVer THEN 0 ELSE sinceAck
  /\ UNCHANGED <<readers, memcache, dbver, ttl, lock_timeout, shape, lockLost,
                 owner, u_committed, u_err, multi, m_age, codec>>

\* if keys: redis_client.delete(*keys); return True
UDeleteKeys ==
  /\ u_pc = "u_delete_keys"
  /\ u_keys # {} => u_fault # 3
  /\ cache' = Deleted(u_keys)
  /\ last' = Forget({"redis"} \X u_keys)
  /\ u_keys' = {}
  /\ u_product_id' = 0
  /\ u_fields' = FALSE
  /\ u_fault' = 0
  /\ u_result' = "True"
  /\ u_pc' = "idle"
  /\ ackVer' = dbver
  /\ sinceAck' = IF dbver > ackVer THEN 0 ELSE sinceAck
  /\ UNCHANGED <<readers, memcache, dbver, ttl, lock_timeout, shape, lockLost,
                 owner, u_committed, u_err, multi, m_age, codec>>

\* the statement of each Redis call of update_product
FaultPc == <<"u_delete", "u_keys", "u_delete_keys">>
\* update_product is at the Redis call the store fails
AtFault ==
  /\ u_fault \in DOMAIN FaultPc
  /\ u_pc = FaultPc[u_fault]
  /\ u_fault = 3 => u_keys # {}
\* the keys the failing call names, if it is a delete
FaultKeys ==
  CASE u_fault = 1 -> {ProductKey(u_product_id)}
    [] u_fault = 3 -> u_keys
    [] OTHER -> {}

\* URaise with the exception caught and dropped (try: ... except Exception: pass):
\* the call goes on and returns True.
URaiseSwallowed ==
  /\ AtFault
  /\ u_fault' = 0
  /\ u_pc' = IF u_fault = 1 THEN "u_keys" ELSE "idle"
  /\ u_result' = IF u_fault = 1 THEN u_result ELSE "True"
  /\ u_keys' = {}
  /\ u_product_id' = IF u_fault = 1 THEN u_product_id ELSE 0
  /\ u_fields' = IF u_fault = 1 THEN u_fields ELSE FALSE
  /\ UNCHANGED <<readers, cache, memcache, last, dbver, ttl, lock_timeout, shape,
                 lockLost, ackVer, sinceAck, owner, u_committed, u_err, multi, m_age, codec>>

\* The Redis call raises (redis.exceptions.ConnectionError, TimeoutError): nothing
\* in update_product catches it, so it leaves the function.  The server may or may
\* not have executed a delete whose answer was lost.
URaise ==
  /\ AtFault
  /\ \E executed \in BOOLEAN :
       /\ cache' = IF executed THEN Deleted(FaultKeys) ELSE cache
       /\ last' = IF executed THEN Forget({"redis"} \X FaultKeys) ELSE last
  /\ u_err' = "BackendUnavailable"
  /\ u_pc' = "idle"
  /\ u_keys' = {}
  /\ u_product_id' = 0
  /\ u_fields' = FALSE
  /\ u_fault' = 0
  /\ UNCHANGED <<readers, memcache, dbver, ttl, lock_timeout, shape, u_result,
                 lockLost, ackVer, sinceAck, owner, u_committed, multi, m_age, codec>>

\* ------------------------------------------------------------------- time
\* One second passes for a Redis key: a key with an expiry loses a second of it
\* and is removed by the server when none is left.
Aged(e) ==
  IF e.exp > 1 THEN Entry(e.val, e.exp - 1)
  ELSE IF e.exp = 1 THEN Absent
  ELSE e

\* the lifetime get_products / get_product_by_id compare an entry's age with
MemTtl(k) == IF k = MemListKey THEN MemListTtl ELSE MemProductTtl
\* One second passes for an entry of _cache: it is a second older (ages past the
\* lifetime are not told apart: the entry is expired and stays in the dict).
MemAged(k) ==
  IF memcache[k] # MemAbsent /\ memcache[k].age < MemTtl(k)
    THEN MemEntry(memcache[k].data, memcache[k].age + 1)
    ELSE memcache[k]

\* the longest a stale value may be served after an update, by the specification
StaleBound == ttl + lock_timeout

Tick ==
  /\ cache' = [k \in DOMAIN cache |-> Aged(cache[k])]
  /\ memcache' = [k \in DOMAIN memcache |-> MemAged(k)]
  /\ lockLost' = (lockLost \/ (cache[LockKey(Key)].exp = 1
                               /\ \E c \in Callers : pc[c] \in HolderPcs))
  /\ sinceAck' = IF ackVer > 0 /\ sinceAck <= StaleBound THEN sinceAck + 1 ELSE sinceAck
  /\ last' = Forget({s \in Slots :
                       \/ s[1] = "redis" /\ cache[s[2]].exp = 1
                       \/ s[1] = "mem" /\ memcache[s[2]].age + 1 >= MemTtl(s[2])})
  /\ owner' = IF cache[LockKey(Key)].exp = 1 THEN 0 ELSE owner
  /\ m_age' = IF m_pc \in {"m_loop", "m_done"} /\ m_age < MultiTtl
                THEN m_age + 1 ELSE m_age
  /\ UNCHANGED <<readers, writer, multi, codec, dbver, ttl, lock_timeout, shape,
                 ackVer>>


\* ------------------------------------------------------------ key derivation
\* Each of the two calls builds its cache_key.
DeriveKeys ==
  /\ cache_key = <<>>
  /\ cache_key' = <<KeyOf(key_args[1]), KeyOf(key_args[2])>>
  /\ UNCHANGED <<cache, memcache, dbver, ttl, lock_timeout, shape, readers, writer,
                 multi, m_age, lockLost, ackVer, sinceAck, last, owner, key_args>>

\* ---------------------------------------------------------- specifications
\* no key derivation is followed
NoKeys == key_args = <<>> /\ cache_key = <<>>

InitBase ==
  /\ cache = [k \in RedisKeys |-> Absent]
  /\ memcache = [k \in MemKeys |-> MemAbsent]
  /\ dbver = 0
  /\ ttl \in 1..MaxTtl
  /\ lock_timeout \in 1..MaxLockTimeout
  /\ op = [c \in Callers |-> "none"]
  /\ pc = [c \in Callers |-> "idle"]
  /\ use_cache = [c \in Callers |-> FALSE]
  /\ product_id = [c \in Callers |-> 0]
  /\ depth = [c \in Callers |-> 0]
  /\ fresh_data = [c \in Callers |-> Unset]
  /\ result = [c \in Callers |-> Unset]
  /\ err = [c \in Callers |-> "none"]
  /\ computed = [c \in Callers |-> FALSE]
  /\ u_pc = "idle"
  /\ u_product_id = 0
  /\ u_fields = FALSE
  /\ u_keys = {}
  /\ u_result = "none"
  /\ lockLost = FALSE
  /\ ackVer = 0
  /\ sinceAck = 0
  /\ last = [s \in Slots |-> Unset]
  /\ owner = 0
  /\ u_committed = FALSE
  /\ u_err = "none"
  /\ u_fault = 0
  /\ m_pc = "idle"
  /\ m_product_ids = <<>>
  /\ m_cached_results = <<>>
  /\ m_results = <<>>
  /\ m_i = 0
  /\ m_age = 0

\* The computations of the concurrent specifications return a dict.
Init == InitBase /\ NoKeys /\ shape = "dict"

Next ==
  \/ \E c \in Callers : Call(c)
  \/ \E c \in Callers : Get(c)
  \/ \E c \in Callers : Setnx(c)
  \/ \E c \in Callers : Expire(c)
  \/ \E c \in Callers : FallbackReturn(c)
  \/ \E c \in Callers : FallbackRaise(c)
  \/ \E c \in Callers : Setex(c)
  \/ \E c \in Callers : Release(c)
  \/ \E c \in Callers : Retry(c)
  \/ \E c \in Callers : Crash(c)
  \/ \E c \in Callers : WrapperCall(c)
  \/ \E c \in Callers : WrapperGet(c)
  \/ \E c \in Callers : WrapperCompute(c)
  \/ \E c \in Callers : WrapperRaise(c)
  \/ \E c \in Callers : WrapperSetex(c)
  \/ Tick

\* Concurrent Redis readers (each thread one request) with time passing, failing
\* computations and crashing lock holders.
Spec == Init /\ [][Next]_vars

\* Concurrent stampede-protected readers of one key, initially empty cache, a
\* computation that returns a fixed value and never fails, no time passing.
NextRace ==
  \/ \E c \in Callers : Call(c)
  \/ \E c \in Callers : Get(c)
  \/ \E c \in Callers : Setnx(c)
  \/ \E c \in Callers : Expire(c)
  \/ \E c \in Callers : FallbackReturn(c)
  \/ \E c \in Callers : Setex(c)
  \/ \E c \in Callers : Release(c)
  \/ \E c \in Callers : Retry(c)

RaceSpec == Init /\ [][NextRace]_vars

\* Concurrent stampede-protected readers, update_product running beside them, and
\* time passing.
NextStale ==
  \/ \E c \in Callers : Call(c)
  \/ \E c \in Callers : Get(c)
  \/ \E c \in Callers : Setnx(c)
  \/ \E c \in Callers : Expire(c)
  \/ \E c \in Callers : FallbackReturn(c)
  \/ \E c \in Callers : Setex(c)
  \/ \E c \in Callers : Release(c)
  \/ \E c \in Callers : Retry(c)
  \/ \E id \in ProductIds, fields \in BOOLEAN : UCall(id, fields)
  \/ UCommit
  \/ UDelete
  \/ UKeys
  \/ UDeleteKeys
  \/ Tick

StaleSpec == Init /\ [][NextStale]_vars

\* no request is in progress
Quiescent == u_pc = "idle" /\ \A c \in Callers : pc[c] = "idle"

\* One request at a time: reads through each of the four read paths and updates,
\* each starting when no other is in progress, with time passing.
InitSeq == InitBase /\ NoKeys /\ shape \in Shapes /\ lock_timeout = MaxLockTimeout

NextSeq ==
  \/ Quiescent /\ \E c \in Callers : Call(c)
  \/ Quiescent /\ \E c \in Callers : WrapperCall(c)
  \/ Quiescent /\ \E c \in Callers, uc \in BOOLEAN : ListCall(c, uc)
  \/ Quiescent /\ \E c \in Callers, id \in ProductIds, uc \in BOOLEAN : ProductCall(c, id, uc)
  \/ Quiescent /\ \E id \in ProductIds, fields \in BOOLEAN : UCall(id, fields)
  \/ \E c \in Callers : Get(c)
  \/ \E c \in Callers : Setnx(c)
  \/ \E c \in Callers : Expire(c)
  \/ \E c \in Callers : FallbackReturn(c)
  \/ \E c \in Callers : Setex(c)
  \/ \E c \in Callers : Release(c)
  \/ \E c \in Callers : WrapperGet(c)
  \/ \E c \in Callers : WrapperCompute(c)
  \/ \E c \in Callers : WrapperSetex(c)
  \/ \E c \in Callers : ListCheck(c)
  \/ \E c \in Callers : ListQuery(c)
  \/ \E c \in Callers : ListStore(c)
  \/ \E c \in Callers : ProductCheck(c)
  \/ \E c \in Callers : ProductQuery(c)
  \/ \E c \in Callers : ProductStore(c)
  \/ \E c \in Callers : Reset(c)
  \/ UCommit
  \/ UDelete
  \/ UKeys
  \/ UDeleteKeys
  \/ Tick

SeqSpec == InitSeq /\ [][NextSeq]_vars


\* a step of caller c inside its call of get_with_stampede_protection
CallerStep(c) ==
  \/ Get(c)
  \/ Setnx(c)
  \/ Expire(c)
  \/ FallbackReturn(c)
  \/ Setex(c)
  \/ Release(c)
  \/ Retry(c)

\* Concurrent stampede-protected readers with time passing, a computation that
\* always returns and no crash; every thread that can take a step eventually
\* takes one, and time goes on.
NextFair ==
  \/ \E c \in Callers : Call(c)
  \/ \E c \in Callers : Get(c)
  \/ \E c \in Callers : Setnx(c)
  \/ \E c \in Callers : Expire(c)
  \/ \E c \in Callers : FallbackReturn(c)
  \/ \E c \in Callers : Setex(c)
  \/ \E c \in Callers : Release(c)
  \/ \E c \in Callers : Retry(c)
  \/ Tick

FairSpec ==
  /\ Init
  /\ [][NextFair]_vars
  /\ \A c \in Callers : WF_vars(CallerStep(c))
  /\ WF_vars(Tick)


\* Concurrent readers through the paths that take no lock (the redis_cache
\* wrapper, get_products, get_product_by_id), each thread one request, on empty
\* caches, with no time passing and no update.
NextLockless ==
  \/ \E c \in Callers : WrapperCall(c)
  \/ \E c \in Callers : WrapperGet(c)
  \/ \E c \in Callers : WrapperCompute(c)
  \/ \E c \in Callers : WrapperSetex(c)
  \/ \E c \in Callers, uc \in BOOLEAN : ListCall(c, uc)
  \/ \E c \in Callers : ListCheck(c)
  \/ \E c \in Callers : ListQuery(c)
  \/ \E c \in Callers : ListStore(c)
  \/ \E c \in Callers, id \in ProductIds, uc \in BOOLEAN : ProductCall(c, id, uc)
  \/ \E c \in Callers : ProductCheck(c)
  \/ \E c \in Callers : ProductQuery(c)
  \/ \E c \in Callers : ProductStore(c)

LocklessSpec == Init /\ [][NextLockless]_vars


\* One request at a time through the in-process readers, with update_product
\* changing the row between them and time passing.
NextMem ==
  \/ Quiescent /\ \E c \in Callers, uc \in BOOLEAN : ListCall(c, uc)
  \/ Quiescent /\ \E c \in Callers, id \in ProductIds, uc \in BOOLEAN : ProductCall(c, id, uc)
  \/ Quiescent /\ \E id \in ProductIds, fields \in BOOLEAN : UCall(id, fields)
  \/ \E c \in Callers : ListCheck(c)
  \/ \E c \in Callers : ListQuery(c)
  \/ \E c \in Callers : ListStore(c)
  \/ \E c \in Callers : ProductCheck(c)
  \/ \E c \in Callers : ProductQuery(c)
  \/ \E c \in Callers : ProductStore(c)
  \/ \E c \in Callers : Reset(c)
  \/ UCommit
  \/ UDelete
  \/ UKeys
  \/ UDeleteKeys
  \/ Tick

MemSpec == Init /\ [][NextMem]_vars


\* Key derivation alone: two calls, drawn from the calls above, build their keys.
InitKeys ==
  /\ InitBase
  /\ shape = "dict"
  /\ key_args \in KeyCalls \X KeyCalls
  /\ cache_key = <<>>

KeySpec == InitKeys /\ [][DeriveKeys]_vars

\* no request is in progress (a thread that crashed serves no more)
Quiet ==
  /\ u_pc = "idle"
  /\ m_pc = "idle"
  /\ \A c \in Callers : pc[c] \in {"idle", "crashed"}

\* One request at a time through the stampede-protected and the decorated reader
\* and update_product, with a store that may fail a call of update_product, one
\* lock holder that may crash, and time passing.
InitInval ==
  /\ InitBase
  /\ NoKeys
  /\ shape = "dict"
  /\ ttl = MaxTtl
  /\ lock_timeout = MaxLockTimeout
\* no thread has crashed
NoCrash == \A c \in Callers : pc[c] # "crashed"

\* the thread that serves the next request: the first that has not crashed
Server(c) == \A d \in Callers : d < c => pc[d] = "crashed"

NextInval ==
  \/ Quiet /\ \E c \in Callers : Server(c) /\ Call(c)
  \/ Quiet /\ \E c \in Callers : Server(c) /\ WrapperCall(c)
  \/ Quiet /\ \E id \in ProductIds, fields \in BOOLEAN, fault \in 0..3 :
                UCallFailing(id, fields, fault)
  \/ \E c \in Callers : Get(c)
  \/ \E c \in Callers : Setnx(c)
  \/ \E c \in Callers : Expire(c)
  \/ \E c \in Callers : FallbackReturn(c)
  \/ \E c \in Callers : Setex(c)
  \/ \E c \in Callers : Release(c)
  \/ \E c \in Callers : Retry(c)
  \/ NoCrash /\ \E c \in Callers : Crash(c)
  \/ \E c \in Callers : WrapperGet(c)
  \/ \E c \in Callers : WrapperCompute(c)
  \/ \E c \in Callers : WrapperSetex(c)
  \/ \E c \in Callers : Reset(c)
  \/ UCommit
  \/ UDelete
  \/ UKeys
  \/ UDeleteKeys
  \/ URaise
  \/ Tick

InvalSpec == InitInval /\ [][NextInval]_vars

\* One call of get_multiple_products at a time, with update_product changing the
\* row of product 1 between the calls and time passing.
NextMulti ==
  \/ Quiet /\ \E ids \in IdLists : MCall(ids)
  \/ Quiet /\ \E id \in ProductIds, fields \in BOOLEAN : UCall(id, fields)
  \/ MExecute
  \/ MIter
  \/ MReturn
  \/ MReset
  \/ UCommit
  \/ UDelete
  \/ UKeys
  \/ UDeleteKeys
  \/ Tick

MultiSpec == InitInval /\ [][NextMulti]_vars

\* ================================================================= claims
\* the callers that are executing fallback_function
InFallback == {c \in Callers : pc[c] = "fallback"}

\* C1 (as stated): in every reachable state at most one caller is executing
\* fallback_function for the key, whatever the computation's duration.
C1_OneComputationInFlight == Cardinality(InFallback) <= 1

\* C1 (amended): as long as no lock key has expired while the caller that created
\* it was still between its setnx and its delete, at most one caller is executing
\* fallback_function for the key.
C1_OneComputationWhileLockLasts == ~lockLost => Cardinality(InFallback) <= 1

\* One caller computes under a lock that has not expired while another, having
\* lost the setnx, waits.
C1_Witness ==
  /\ ~lockLost
  /\ \E c, d \in Callers : pc[c] = "fallback" /\ pc[d] = "sleep"

\* C2: with concurrent callers on an empty cache and a computation returning a
\* fixed value, fallback_function is invoked at most once in all and any two calls
\* that have returned have returned the same value.
C2_ComputedOnceSameValue ==
  /\ Cardinality({c \in Callers : computed[c]}) <= 1
  /\ \A c, d \in Callers :
       (pc[c] = "done" /\ pc[d] = "done") => result[c] = result[d]

\* C3: once the lock holder has crashed, a caller that gives up waiting for the
\* lock ends with a timeout error, raised by a retry bound of the function.
C3_WaiterEndsWithLockTimeout ==
  [][\A c \in Callers :
       ( /\ \E h \in Callers : pc[h] = "crashed"
         /\ pc[c] = "sleep"
         /\ pc'[c] = "raised" )
       => err'[c] = "LockTimeout"]_vars

\* C4: a lock key left by a crashed holder is removed by its expiry: a lock key
\* that carries no expiry always has a live caller about to give it one.
C4_CrashedHolderLockExpires ==
  (get(LockKey(Key)) # Nil /\ cache[LockKey(Key)].exp = NoExpiry)
    => \E c \in Callers : pc[c] = "expire"

\* C5: the step by which a call whose fallback_function raised hands the exception
\* to its caller leaves no lock entry for the key, so that the next setnx succeeds.
C5_LockReleasedOnFailure ==
  [][\A c \in Callers :
       (pc[c] = "release" /\ pc'[c] = "raised") => cache'[LockKey(Key)] = Absent]_vars

\* A call has ended with the computation's exception and a caller after it holds
\* a lock of its own.
C5_Witness ==
  \E c, d \in Callers :
    /\ pc[c] = "raised" /\ err[c] = "ProducerFailure"
    /\ op[c] = "get_with_stampede_protection"
    /\ pc[d] = "expire"
    /\ get(LockKey(Key)) # Nil
    /\ ~lockLost

\* the calls whose computation returned a value
Succeeded(k) ==
  {c \in Callers :
     /\ err[c] = "none"
     /\ fresh_data[c] # Unset
     /\ op[c] = (IF k = Key THEN "get_with_stampede_protection" ELSE "redis_cache")}

\* C6: a computation that raises is never cached: every entry the store holds for
\* a cache key is the serialized result of a call whose computation returned.
C6_FailureNotCached ==
  \A k \in {Key, ListKey} :
    get(k) # Nil => \E c \in Succeeded(k) : get(k) = dumps(fresh_data[c])

\* Both a stampede-protected call and a decorated call have ended with the
\* computation's exception, the cache holds nothing, and a later call computes.
C6_Witness ==
  /\ get(Key) = Nil
  /\ \E c, d \in Callers :
       /\ pc[c] = "raised" /\ err[c] = "ProducerFailure"
       /\ pc[d] \in {"fallback", "w_setex"} /\ op[d] = op[c]

\* C7: after update_product has returned True, a cached read of the product does
\* not answer from an entry older than the update: a hit of get_product_by_id
\* returns a record at least as new as the acknowledged update.
C7_ReadAfterUpdateIsFresh ==
  [][\A c \in Callers :
       ( /\ op[c] = "get_product_by_id" /\ use_cache[c]
         /\ pc[c] = "p_check" /\ pc'[c] = "done" )
       => result'[c].v >= ackVer]_vars

\* C8: once update_product has returned, no list view computed before the
\* update is servable: neither the Redis entry under products_list: nor the
\* in-process page of get_products holds data older than the update.
C8_NoStaleListAfterInvalidation ==
  u_pc = "idle" =>
    /\ get(ListKey) # Nil => loads(get(ListKey)).v >= ackVer
    /\ (memcache[MemListKey] # MemAbsent /\ memcache[MemListKey].age < MemListTtl)
         => memcache[MemListKey].data.v >= ackVer

\* C9: a cache hit of get_with_stampede_protection returns a value computed from
\* data older than an acknowledged update no later than ttl + lock_timeout
\* seconds after the update's invalidation completed.
C9_StalenessBounded ==
  [][\A c \in Callers :
       (pc[c] = "get" /\ pc'[c] = "done" /\ result'[c].v < ackVer)
       => sinceAck <= StaleBound]_vars

\* the slot a caller's read looks up
SlotOf(c) ==
  CASE op[c] = "get_with_stampede_protection" -> <<"redis", Key>>
    [] op[c] = "redis_cache" -> <<"redis", ListKey>>
    [] op[c] = "get_products" -> <<"mem", MemListKey>>
    [] OTHER -> <<"mem", ProductKey(product_id[c])>>
\* caller c takes the step that looks its key up, as a cached read
LooksUp(c) ==
  /\ pc[c] \in {"get", "w_get", "l_check", "p_check"}
  /\ pc'[c] # pc[c]
  /\ op[c] \in {"get_products", "get_product_by_id"} => use_cache[c]

\* C10 (as stated): a read that follows a read of the same key, with no
\* invalidation and no expiry since, finds the entry and returns the value the
\* first read returned (so that the computation is not run again).
C10_SecondCallIsHit ==
  [][\A c \in Callers :
       (LooksUp(c) /\ last[SlotOf(c)] # Unset)
       => (pc'[c] = "done" /\ result'[c] = last[SlotOf(c)])]_vars

\* the value the first read returned comes back the same from the cache: JSON
\* gives it back as it was, and it is not the None of a product that is not found
ComesBack(c) ==
  /\ SlotOf(c)[1] = "redis" => loads(dumps(last[SlotOf(c)])) = last[SlotOf(c)]
  /\ op[c] = "get_product_by_id" => last[SlotOf(c)] # PyNone

\* C10 (amended): the same, provided the value is one that a JSON round trip
\* leaves unchanged (Redis paths) and, for get_product_by_id, the product exists.
C10_SecondCallIsHitWhenCached ==
  [][\A c \in Callers :
       (LooksUp(c) /\ last[SlotOf(c)] # Unset /\ ComesBack(c))
       => (pc'[c] = "done" /\ result'[c] = last[SlotOf(c)])]_vars

\* A second stampede-protected read has returned the first one's value without
\* computing, and so has a second read of an in-process product entry.
C10_Witness ==
  \E c \in Callers :
    /\ pc[c] = "done" /\ ~computed[c]
    /\ op[c] = "get_product_by_id"
    /\ result[c] = last[SlotOf(c)]
    /\ get(Key) # Nil /\ get(ListKey) # Nil /\ memcache[MemListKey] # MemAbsent

\* C13: the finally block of a caller deletes only the lock that caller's own
\* setnx created: when a call leaves through its delete and a lock key is live,
\* that key is the caller's.
C13_LockDeletedByItsCreator ==
  [][\A c \in Callers :
       ( /\ pc[c] = "release" /\ pc'[c] \in {"done", "raised"}
         /\ get(LockKey(Key)) # Nil )
       => owner = c]_vars


\* C14: under fair scheduling, with a computation that always returns and no
\* crash, every call of get_with_stampede_protection eventually returns a value.
C14_EveryCallReturns ==
  \A c \in Callers : (pc[c] = "get") ~> (pc[c] = "done")


\* the callers whose cached read of slot s has run the database query (a product
\* that is not found is left aside: it is never cached)
Queried(s) ==
  {c \in Callers :
     /\ op[c] \in {"redis_cache", "get_products", "get_product_by_id"}
     /\ SlotOf(c) = s
     /\ op[c] = "redis_cache" \/ use_cache[c]
     /\ op[c] = "get_product_by_id" => Exists(product_id[c])
     /\ computed[c]}

\* C15: when several threads read the same key through a path without a lock,
\* starting from an empty cache, the database query runs at most once for the key.
C15_LocklessQueriesOnce ==
  \A s \in Slots : Cardinality(Queried(s)) <= 1


\* the statements at which an in-process reader looks its key up, runs the
\* query, and stores the result
CheckPcs == {"l_check", "p_check"}
QueryPcs == {"l_query", "p_query"}
StorePcs == {"l_store", "p_store"}

\* C11: get_products and get_product_by_id return a cached result only from an
\* entry younger than its lifetime; a cached read that finds an entry whose age
\* has reached the lifetime goes on to query the database, and its store replaces
\* the entry by the fresh result with age zero.
C11_NeverServesExpired ==
  [][\A c \in Callers :
       LET k == SlotOf(c)[2] IN
       /\ (pc[c] \in CheckPcs /\ pc'[c] = "done")
            => /\ memcache[k] # MemAbsent
               /\ memcache[k].age < MemTtl(k)
               /\ result'[c] = memcache[k].data
       /\ ( /\ pc[c] \in CheckPcs /\ pc'[c] # pc[c] /\ use_cache[c]
            /\ memcache[k] # MemAbsent /\ memcache[k].age >= MemTtl(k) )
            => pc'[c] \in QueryPcs
       /\ (pc[c] \in StorePcs /\ pc'[c] = "done" /\ use_cache[c])
            => /\ memcache'[k] = MemEntry(fresh_data[c], 0)
               /\ fresh_data[c].v = dbver]_vars

\* A cached read of the list found an expired entry of an older row, has queried
\* the database and is about to replace the entry.
C11_Witness ==
  \E c \in Callers :
    /\ op[c] = "get_products" /\ use_cache[c] /\ pc[c] = "l_store"
    /\ memcache[MemListKey] # MemAbsent
    /\ memcache[MemListKey].age >= MemListTtl
    /\ memcache[MemListKey].data.v < fresh_data[c].v

\* C18: a call of get_products or get_product_by_id with use_cache=False never
\* returns from the lookup, runs the query, returns the query's result, and none
\* of its steps changes _cache.
C18_UncachedReadLeavesCache ==
  [][\A c \in Callers :
       ( /\ op[c] \in {"get_products", "get_product_by_id"}
         /\ ~use_cache[c]
         /\ pc'[c] # pc[c] /\ pc[c] # "done" )
       => /\ memcache' = memcache
          /\ pc[c] \in CheckPcs => pc'[c] \in QueryPcs
          /\ pc'[c] = "done"
               => /\ computed'[c]
                  /\ result'[c] = IF op[c] = "get_products" \/ Exists(product_id[c])
                                    THEN PyValue("dict", dbver)
                                    ELSE PyNone]_vars

\* An uncached read of the list has returned the current row while a servable
\* entry of an older row stays in _cache.
C18_Witness ==
  \E c \in Callers :
    /\ op[c] = "get_products" /\ ~use_cache[c] /\ pc[c] = "done"
    /\ memcache[MemListKey] # MemAbsent
    /\ memcache[MemListKey].age < MemListTtl
    /\ memcache[MemListKey].data.v < result[c].v


\* C12: key derivation is injective: two calls that differ in the function (or
\* key_prefix) or in an argument's value or type build different keys.
C12_KeysInjective ==
  (cache_key # <<>> /\ key_args[1] # key_args[2]) => cache_key[1] # cache_key[2]


\* key k starts with 'products_list:'
HasListPrefix(k) == StartsWith(k, <<"products_list", ":">>)
\* update_product takes a step
UStep == u_pc' # u_pc

\* C16: the invalidation of update_product removes the key product_<product_id>
\* with its first call and every key that starts with products_list: with its
\* last one; each call leaves every other key (other products' entries, lock
\* keys) as it was, and after the last no key with the prefix is present.
C16_InvalidationFrame ==
  [][/\ (u_pc = "u_delete" /\ u_pc' = "u_keys")
          => \A k \in DOMAIN cache :
               cache'[k] = IF k = ProductKey(u_product_id) THEN Absent ELSE cache[k]
     /\ (u_pc = "u_keys" /\ u_pc' = "u_delete_keys") => cache' = cache
     /\ (u_pc = "u_delete_keys" /\ u_result' = "True")
          => \A k \in DOMAIN cache :
               cache'[k] = IF HasListPrefix(k) THEN Absent ELSE cache[k]]_vars

\* update_product(1, ...) has deleted product_1 and is about to delete the list
\* key it found, while the lock key of a holder that crashed is live.
C16_Witness ==
  /\ u_pc = "u_delete_keys" /\ u_product_id = 1
  /\ u_keys = {ListKey} /\ get(ListKey) # Nil
  /\ get(LockKey(Key)) # Nil
  /\ get(Key) = Nil

\* C17: when the store fails a Redis call of update_product's invalidation, the
\* call ends there with the exception: it makes no further call, does not return
\* True, and the update it committed stays committed.
C17_DeleteFailurePropagates ==
  [][(AtFault /\ UStep)
       => /\ u_err' = "BackendUnavailable"
          /\ u_pc' = "idle"
          /\ u_result' # "True"
          /\ u_committed /\ u_committed'
          /\ dbver' = dbver]_vars

\* A call whose update of the row of product 1 was committed has ended with the
\* store's exception while the entry of the product is still cached.
C17_Witness ==
  /\ u_pc = "idle" /\ u_err = "BackendUnavailable" /\ u_result = "none"
  /\ u_committed /\ dbver = 1
  /\ get(Key) # Nil /\ loads(get(Key)).v < dbver

\* C19: update_product with name, price and description all None returns False
\* without committing anything and without deleting a cache key; a step of
\* update_product that deletes a key, and its return of True, come after the
\* commit of its call.
C19_NoFieldsNoChange ==
  [][/\ (u_pc = "idle" /\ UStep)
          => dbver' = dbver /\ cache' = cache /\ memcache' = memcache
     /\ (u_pc = "u_commit" /\ ~u_fields /\ UStep)
          => /\ u_result' = "False" /\ u_pc' = "idle" /\ ~u_committed'
             /\ dbver' = dbver /\ cache' = cache /\ memcache' = memcache
     /\ (UStep /\ cache' # cache) => u_committed
     /\ (UStep /\ u_result' = "True") => u_committed]_vars

\* update_product with all fields None has returned False while entries of the
\* product and of the list are cached.
C19_Witness ==
  /\ u_pc = "idle" /\ u_result = "False" /\ ~u_committed
  /\ get(Key) # Nil /\ get(ListKey) # Nil


\* ---- C20
\* the ids of a call, by position: found in the cached_results of the pipeline,
\* or missed there and found in the database
MHit(i) == m_cached_results[i] # Nil
MMissFound(i) == m_cached_results[i] = Nil /\ Exists(m_product_ids[i])
\* what the call owes for position i
MValue(i) ==
  IF MHit(i) THEN loads(m_cached_results[i]) ELSE get_product_from_db(m_product_ids[i])
\* one result for every position that is a hit or found in the database, in the
\* order of product_ids
MExpected ==
  LET idx == [i \in 1..Len(m_product_ids) |-> i]
      kept == SelectSeq(idx, LAMBDA i : MHit(i) \/ MMissFound(i))
  IN [j \in 1..Len(kept) |-> MValue(kept[j])]
\* the call returns
MReturns == m_pc = "m_loop" /\ m_pc' = "m_done"
\* the call takes one turn of its loop
MTurn == m_pc = "m_loop" /\ m_i' = m_i + 1

====
